---- MODULE Spec2Model ----
(***************************************************************************)
(* State model of the yew TodoMVC application in src/src/app.rs: the       *)
(* State struct (entries, filter, value, edit_value), the persisted copy   *)
(* of the entries kept by the StorageService, and App::update, the single  *)
(* message handler through which every user gesture passes.                *)
(*                                                                         *)
(* Indices are the code's: a Msg carries a 0-based usize; TLA+ sequences   *)
(* are 1-based, so Vec position p is sequence position p + 1.              *)
(***************************************************************************)
EXTENDS Integers, Sequences, FiniteSets

\* Bound on the length of the entries Vec (the Vec itself is unbounded).
MaxEntries == 3

\* The texts a user types or a stored entry holds: the empty text and one other.
Strings == {"", "a"}

\* enum Filter { All, Active, Completed }
Filter == {"All", "Active", "Completed"}

\* struct Entry { description, completed, editing }
Entry == [description : Strings, completed : BOOLEAN, editing : BOOLEAN]

\* The usize values a Msg may carry: every row position of a full list, so
\* that positions outside the currently visible rows occur too.
Indices == 0 .. (MaxEntries - 1)

\* What local storage holds under KEY: nothing, text that does not
\* deserialize to a Vec<Entry>, or the JSON of a Vec<Entry> (data).
Absent == [kind |-> "absent", data |-> <<>>]
Malformed == [kind |-> "malformed", data |-> <<>>]
Stored(es) == [kind |-> "json", data |-> es]

VARIABLES
    entries,     \* State::entries, a sequence of Entry
    filter,      \* State::filter
    value,       \* State::value, the new-entry input buffer
    edit_value,  \* State::edit_value, the edit buffer
    storage,     \* what local storage holds under KEY
    panicked,    \* TRUE once a handler has panicked (unwrap on None, index out of bounds)
    msg          \* the Msg App::update has handled and view has not yet rendered

vars == <<entries, filter, value, edit_value, storage, panicked, msg>>

----------------------------------------------------------------------------
(* Sequence helpers standing for Vec / iterator primitives. *)

\* Vec::remove(p) for a 0-based p < len: shifts the later elements left.
VecRemove(s, p) ==
    [k \in 1 .. (Len(s) - 1) |-> IF k <= p THEN s[k] ELSE s[k + 1]]

----------------------------------------------------------------------------
(* impl Filter *)

fit(f, entry) ==
    CASE f = "All" -> TRUE
      [] f = "Active" -> ~entry.completed
      [] f = "Completed" -> entry.completed

----------------------------------------------------------------------------
(* impl State: each method is a function of the entries Vec and the filter. *)

total(es) == Len(es)

\* The Vec positions (1-based) from k on of the entries passing f, in order.
RECURSIVE filtered_from(_, _, _)
filtered_from_unfiltered(es, f, k) ==
    IF k > Len(es) THEN <<>> ELSE [j \in 1 .. (Len(es) - k + 1) |-> k + j - 1]

filtered_from(es, f, k) ==
    IF k > Len(es) THEN <<>>
    ELSE IF fit(f, es[k]) THEN <<k>> \o filtered_from(es, f, k + 1)
         ELSE filtered_from(es, f, k + 1)

\* The positions that iter().filter(|e| f.fit(e)) yields, in order.
filtered(es, f) == filtered_from(es, f, 1)

\* iter().filter(|e| f.fit(e)).collect(): the entries passing f, in order.
collect(es, f) ==
    LET ps == filtered(es, f) IN [j \in 1 .. Len(ps) |-> es[ps[j]]]

total_completed_active(es) == Len(collect(es, "Active"))

total_completed(es) == Len(collect(es, "Completed"))

\* entries.get_mut(idx) is Some: otherwise unwrap() panics.
get_is_some(es, f, idx) == idx < Len(filtered(es, f))

is_all_completed_no_peek(es, f) ==
    LET shown == collect(es, f)
    IN  \A k \in 1 .. Len(shown) : shown[k].completed

is_all_completed_any(es, f) ==
    LET shown == collect(es, f)
    IN  \E k \in 1 .. Len(shown) : shown[k].completed

is_all_completed(es, f) ==
    LET shown == collect(es, f)
    IN  IF Len(shown) = 0 THEN FALSE
        ELSE \A k \in 1 .. Len(shown) : shown[k].completed

toggle_all_unfiltered(es, f, val) ==
    [k \in 1 .. Len(es) |-> [es[k] EXCEPT !.completed = val]]

toggle_all(es, f, val) ==
    [k \in 1 .. Len(es) |->
        IF fit(f, es[k]) THEN [es[k] EXCEPT !.completed = val] ELSE es[k]]

clear_completed_skip_first(es) ==
    IF es = <<>> THEN <<>>
    ELSE collect(Tail(es), "Active")

clear_completed_keep_completed(es) ==
    collect(es, "Completed")

clear_completed(es) ==
    collect(es, "Active")

toggle_set(es, f, idx) ==
    LET p == filtered(es, f)[idx + 1]
    IN  [es EXCEPT ![p].completed = TRUE]

toggle(es, f, idx) ==
    LET p == filtered(es, f)[idx + 1]
    IN  [es EXCEPT ![p].completed = ~@]

toggle_edit_set(es, f, idx) ==
    LET p == filtered(es, f)[idx + 1]
    IN  [es EXCEPT ![p].editing = TRUE]

toggle_edit(es, f, idx) ==
    LET p == filtered(es, f)[idx + 1]
    IN  [es EXCEPT ![p].editing = ~@]

complete_edit_keep_editing(es, f, idx, val) ==
    LET p == filtered(es, f)[idx + 1]
    IN  [es EXCEPT ![p].description = val]

complete_edit(es, f, idx, val) ==
    LET p == filtered(es, f)[idx + 1]
    IN  [es EXCEPT ![p].description = val, ![p].editing = ~@]

remove_unfiltered(es, f, idx) == VecRemove(es, idx)

remove(es, f, idx) ==
    LET p == filtered(es, f)[idx + 1]
    IN  VecRemove(es, p - 1)

----------------------------------------------------------------------------
(* App::update: the arms of `match msg`, each a function of the state      *)
(* record s.  An arm returns the state at the point where the handler      *)
(* stops: at its end, or at the panic.                                     *)

Panic_ignored(s) == s

Panic(s) == [s EXCEPT !.panicked = TRUE]

Msg_Add_reject_empty(s) ==
    IF s.value = "" THEN s
    ELSE [s EXCEPT
            !.entries = Append(s.entries,
                [description |-> s.value, completed |-> FALSE, editing |-> FALSE]),
            !.value = ""]

Msg_Add(s) ==
    [s EXCEPT
        !.entries = Append(s.entries,
            [description |-> s.value, completed |-> FALSE, editing |-> FALSE]),
        !.value = ""]

Msg_Edit_keep_buffer(s, idx) ==
    IF get_is_some(s.entries, s.filter, idx)
    THEN [s EXCEPT
            !.entries = complete_edit(s.entries, s.filter, idx, s.edit_value)]
    ELSE Panic(s)

Msg_Edit(s, idx) ==
    IF get_is_some(s.entries, s.filter, idx)
    THEN [s EXCEPT
            !.entries = complete_edit(s.entries, s.filter, idx, s.edit_value),
            !.edit_value = ""]
    ELSE Panic(s)

Msg_Update(s, val) == [s EXCEPT !.value = val]

Msg_UpdateEdit_into_value(s, val) == [s EXCEPT !.value = val]

Msg_UpdateEdit(s, val) == [s EXCEPT !.edit_value = val]

Msg_Remove(s, idx) ==
    IF get_is_some(s.entries, s.filter, idx)
    THEN [s EXCEPT !.entries = remove(s.entries, s.filter, idx)]
    ELSE Panic(s)

Msg_SetFilter(s, f) == [s EXCEPT !.filter = f]

Msg_ToggleEdit_keep_buffer(s, idx) ==
    IF idx >= Len(s.entries) THEN Panic(s)
    ELSE IF get_is_some(s.entries, s.filter, idx)
         THEN [s EXCEPT !.entries = toggle_edit(s.entries, s.filter, idx)]
         ELSE Panic(s)

\* self.state.entries[idx] indexes the Vec itself and panics when idx is not
\* below its length; toggle_edit(idx) then indexes the filtered entries.
Msg_ToggleEdit(s, idx) ==
    IF idx >= Len(s.entries) THEN Panic(s)
    ELSE LET t == [s EXCEPT !.edit_value = s.entries[idx + 1].description]
         IN  IF get_is_some(t.entries, t.filter, idx)
             THEN [t EXCEPT !.entries = toggle_edit(t.entries, t.filter, idx)]
             ELSE Panic(t)

Msg_ToggleAll_no_negation(s) ==
    LET status == is_all_completed(s.entries, s.filter)
    IN  [s EXCEPT !.entries = toggle_all(s.entries, s.filter, status)]

Msg_ToggleAll(s) ==
    LET status == ~is_all_completed(s.entries, s.filter)
    IN  [s EXCEPT !.entries = toggle_all(s.entries, s.filter, status)]

Msg_Toggle(s, idx) ==
    IF get_is_some(s.entries, s.filter, idx)
    THEN [s EXCEPT !.entries = toggle(s.entries, s.filter, idx)]
    ELSE Panic(s)

Msg_ClearCompleted(s) == [s EXCEPT !.entries = clear_completed(s.entries)]

Msg_Nope(s) == s

\* match msg { ... }
match_msg(s, m) ==
    CASE m.kind = "Add" -> Msg_Add(s)
      [] m.kind = "Edit" -> Msg_Edit(s, m.idx)
      [] m.kind = "Update" -> Msg_Update(s, m.text)
      [] m.kind = "UpdateEdit" -> Msg_UpdateEdit(s, m.text)
      [] m.kind = "Remove" -> Msg_Remove(s, m.idx)
      [] m.kind = "SetFilter" -> Msg_SetFilter(s, m.flt)
      [] m.kind = "ToggleEdit" -> Msg_ToggleEdit(s, m.idx)
      [] m.kind = "ToggleAll" -> Msg_ToggleAll(s)
      [] m.kind = "Toggle" -> Msg_Toggle(s, m.idx)
      [] m.kind = "ClearCompleted" -> Msg_ClearCompleted(s)
      [] m.kind = "Nope" -> Msg_Nope(s)

update_skip_nope(s, m) ==
    LET t == match_msg(s, m)
    IN  IF t.panicked \/ m.kind = "Nope" THEN t
        ELSE [t EXCEPT !.storage = Stored(t.entries)]

\* The match, then storage.store(KEY, Json(&self.state.entries)) unless an
\* arm panicked before reaching it.
update(s, m) ==
    LET t == match_msg(s, m)
    IN  IF t.panicked THEN t ELSE [t EXCEPT !.storage = Stored(t.entries)]

----------------------------------------------------------------------------
(* The state machine. *)

\* The State struct together with the storage and the panic flag.
Cur ==
    [entries |-> entries, filter |-> filter, value |-> value,
     edit_value |-> edit_value, storage |-> storage, panicked |-> panicked]

\* Every Vec<Entry> of at most MaxEntries entries.
EntrySeqs == UNION {[1 .. n -> Entry] : n \in 0 .. MaxEntries}

\* enum Msg: the variant and its payload, a usize (idx), a String (text) or a
\* Filter (flt); the payload fields a variant does not have are 0, "", "All".
MsgIdx(kind, idx) == [kind |-> kind, idx |-> idx, text |-> "", flt |-> "All"]
MsgText(kind, val) == [kind |-> kind, idx |-> 0, text |-> val, flt |-> "All"]
MsgFilter(kind, f) == [kind |-> kind, idx |-> 0, text |-> "", flt |-> f]
MsgUnit(kind) == [kind |-> kind, idx |-> 0, text |-> "", flt |-> "All"]

\* No message has been handled yet.
NoMsg == MsgUnit("None")

\* App::create: the entries are the restored ones, or Vec::new() when the
\* key is absent or does not deserialize.
create_unwrap(stored) ==
    [entries |-> stored.data,
     filter |-> "All", value |-> "", edit_value |-> "",
     storage |-> stored, panicked |-> stored.kind # "json"]

create(stored) ==
    [entries |-> IF stored.kind = "json" THEN stored.data ELSE <<>>,
     filter |-> "All", value |-> "", edit_value |-> "",
     storage |-> stored, panicked |-> FALSE]

Init ==
    \E stored \in {Stored(es) : es \in EntrySeqs} \cup {Absent, Malformed} :
        LET s == create(stored)
        IN  /\ entries = s.entries
            /\ filter = s.filter
            /\ value = s.value
            /\ edit_value = s.edit_value
            /\ storage = s.storage
            /\ panicked = s.panicked
            /\ msg = NoMsg

\* The view is rendered and its callbacks are live; after a panic the
\* component handles no more.
Ready == ~panicked /\ msg = NoMsg

\* App::update handles m to completion, once (s is its result).
Dispatch(m) ==
    /\ \E s \in {update(Cur, m)} :
           /\ entries' = s.entries
           /\ filter' = s.filter
           /\ value' = s.value
           /\ edit_value' = s.edit_value
           /\ storage' = s.storage
           /\ panicked' = s.panicked
    /\ msg' = m

addEntry == Ready /\ Len(entries) < MaxEntries /\ Dispatch(MsgUnit("Add"))

commitEdit(idx) == Ready /\ Dispatch(MsgIdx("Edit", idx))

updateValue(val) == Ready /\ Dispatch(MsgText("Update", val))

updateEditValue(val) == Ready /\ Dispatch(MsgText("UpdateEdit", val))

removeEntry(idx) == Ready /\ Dispatch(MsgIdx("Remove", idx))

setFilter(f) == Ready /\ Dispatch(MsgFilter("SetFilter", f))

beginEdit(idx) == Ready /\ Dispatch(MsgIdx("ToggleEdit", idx))

toggleAll == Ready /\ Dispatch(MsgUnit("ToggleAll"))

toggleEntry(idx) == Ready /\ Dispatch(MsgIdx("Toggle", idx))

clearCompleted == Ready /\ Dispatch(MsgUnit("ClearCompleted"))

noop == Ready /\ Dispatch(MsgUnit("Nope"))

\* update returned true (ShouldRender): the view is rendered from the new
\* state, and its callbacks send the next message.
view ==
    /\ ~panicked
    /\ msg # NoMsg
    /\ msg' = NoMsg
    /\ UNCHANGED <<entries, filter, value, edit_value, storage, panicked>>

Next ==
    \/ addEntry
    \/ \E idx \in Indices : commitEdit(idx)
    \/ \E val \in Strings : updateValue(val)
    \/ \E val \in Strings : updateEditValue(val)
    \/ \E idx \in Indices : removeEntry(idx)
    \/ \E f \in Filter : setFilter(f)
    \/ \E idx \in Indices : beginEdit(idx)
    \/ toggleAll
    \/ \E idx \in Indices : toggleEntry(idx)
    \/ clearCompleted
    \/ noop
    \/ view

Spec == Init /\ [][Next]_vars

----------------------------------------------------------------------------
(* The properties.  They are stated in terms of the visible rows, not of   *)
(* the definitions above: an entry is shown under a filter, the rows are   *)
(* the shown entries in Vec order, and row i is the shown entry with       *)
(* exactly i shown entries before it.                                      *)
(*                                                                         *)
(* A step that handles a message leaves it in msg', reads the state before *)
(* the handler from the unprimed variables and the state after it from the *)
(* primed ones.                                                            *)

Shown(f, e) ==
    \/ f = "All"
    \/ f = "Active" /\ e.completed = FALSE
    \/ f = "Completed" /\ e.completed = TRUE

Rows(es, f) == {p \in 1 .. Len(es) : Shown(f, es[p])}

\* The Vec position (1-based) of row i, for i < Cardinality(Rows(es, f)).
RowPos(es, f, i) ==
    CHOOSE p \in Rows(es, f) : Cardinality({q \in Rows(es, f) : q < p}) = i

\* es without the element at position p.
Without(es, p) == SubSeq(es, 1, p - 1) \o SubSeq(es, p + 1, Len(es))

\* The step handles a message of this kind.
Handles(kind) == msg = NoMsg /\ msg'.kind = kind

\* The step handles an index-taking message of this kind for a visible row.
HandlesRow(kind) ==
    Handles(kind) /\ msg'.idx < Cardinality(Rows(entries, filter))

\* The position of the row the handled message names.
Target == RowPos(entries, filter, msg'.idx)

\* Every entry but the one at position p is as it was, and none was added
\* or removed.
OthersKept(p) ==
    /\ Len(entries') = Len(entries)
    /\ \A q \in 1 .. Len(entries) : q # p => entries'[q] = entries[q]

\* What a second handling of the message just handled would leave.
Again == update(Cur, msg)

C1_Toggle ==
    HandlesRow("Toggle") =>
        /\ ~panicked'
        /\ OthersKept(Target)
        /\ entries'[Target] = [entries[Target] EXCEPT !.completed = ~@]

C1_ToggleEdit ==
    HandlesRow("ToggleEdit") =>
        /\ ~panicked'
        /\ OthersKept(Target)
        /\ entries'[Target] = [entries[Target] EXCEPT !.editing = ~@]

C1_Edit ==
    HandlesRow("Edit") =>
        /\ ~panicked'
        /\ OthersKept(Target)
        /\ entries'[Target].completed = entries[Target].completed
        /\ entries'[Target].editing # entries[Target].editing

C1_Remove ==
    HandlesRow("Remove") =>
        /\ ~panicked'
        /\ entries' = Without(entries, Target)

\* C1: for a visible row index, toggleEntry, beginEdit, commitEdit and
\* removeEntry act on exactly the entry shown in that row under the current
\* filter (the idx-th shown entry in Vec order) and leave every other entry
\* as it was.
C1_FilteredIndexing ==
    [][C1_Toggle /\ C1_ToggleEdit /\ C1_Edit /\ C1_Remove]_vars

\* A toggle has acted on the second row of the Completed view, which is the
\* third entry of the Vec: the entry left the view, its neighbours did not move.
C1_Witness ==
    /\ msg = MsgIdx("Toggle", 1)
    /\ ~panicked
    /\ filter = "Completed"
    /\ Len(entries) = 3
    /\ entries[1].completed /\ ~entries[2].completed /\ ~entries[3].completed

\* C2: beginEdit on a visible row copies into edit_value the description of
\* the entry shown in that row, the entry whose editing flag it flips.
C2_BeginEditCopiesShownRow ==
    [][HandlesRow("ToggleEdit") =>
            edit_value' = entries[Target].description]_vars

\* C3: removeEntry on a visible row removes exactly the entry shown in that
\* row: the Vec is one shorter, the other entries keep their order and their
\* fields, and nothing else of the state changes.
C3_RemoveExactlyOne ==
    [][HandlesRow("Remove") =>
            /\ ~panicked'
            /\ Len(entries') = Len(entries) - 1
            /\ \A q \in 1 .. Len(entries') :
                    entries'[q] = IF q < Target THEN entries[q] ELSE entries[q + 1]
            /\ <<filter', value', edit_value'>> = <<filter, value, edit_value>>]_vars

\* removeEntry(1) has acted under filter Active and left [A(false), B(true)]:
\* the removed second active entry was not B.
C3_Witness ==
    /\ msg = MsgIdx("Remove", 1)
    /\ ~panicked
    /\ filter = "Active"
    /\ Len(entries) = 2
    /\ ~entries[1].completed /\ entries[2].completed

\* C4 as stated: under every filter, toggleEntry(i) on a visible row followed
\* by toggleEntry(i) succeeds and leaves the entries as they were before the
\* two calls.
C4_ToggleInvolution ==
    [][HandlesRow("Toggle") =>
            /\ ~Again'.panicked
            /\ Again'.entries = entries]_vars

\* C4 amended: under filter All, toggleEntry(i) on a visible row followed by
\* toggleEntry(i) succeeds and leaves the entries as they were before the two
\* calls.
C4_ToggleInvolutionUnderAll ==
    [][(HandlesRow("Toggle") /\ filter = "All") =>
            /\ ~Again'.panicked
            /\ Again'.entries = entries]_vars

\* A toggle has completed the second of three entries under filter All.
C4_Witness ==
    /\ msg = MsgIdx("Toggle", 1)
    /\ ~panicked
    /\ filter = "All"
    /\ Len(entries) = 3
    /\ entries[2].completed

\* C5: toggleAll sets completed to NOT is_all_completed() (of the state before)
\* on every entry shown under the filter, and changes nothing else: not the
\* entries that are not shown, no description or editing flag, not the number
\* or order of the entries, not the filter, not the buffers.
C5_ToggleAllFrame ==
    [][Handles("ToggleAll") =>
            /\ ~panicked'
            /\ Len(entries') = Len(entries)
            /\ \A p \in 1 .. Len(entries) :
                    entries'[p] =
                        IF Shown(filter, entries[p])
                        THEN [entries[p] EXCEPT
                                !.completed = ~is_all_completed(entries, filter)]
                        ELSE entries[p]
            /\ <<filter', value', edit_value'>> = <<filter, value, edit_value>>]_vars

\* toggleAll has acted under filter Active on three entries, one of them in
\* edit mode: all are completed now.
C5_Witness ==
    /\ msg = MsgUnit("ToggleAll")
    /\ ~panicked
    /\ filter = "Active"
    /\ Len(entries) = 3
    /\ \A p \in 1 .. 3 : entries[p].completed
    /\ entries[2].editing

AllCompleted(es) == \A p \in 1 .. Len(es) : es[p].completed

NoneCompleted(es) == \A p \in 1 .. Len(es) : ~es[p].completed

\* C6: under filter All, toggleAll leaves every entry with completed equal to
\* the negation of "all entries were completed"; so on a non-empty list not
\* all completed it completes every entry, and a second toggleAll then
\* leaves none completed.
C6_ToggleAllUnderAll ==
    [][(Handles("ToggleAll") /\ filter = "All") =>
            /\ Len(entries') = Len(entries)
            /\ \A p \in 1 .. Len(entries') :
                    entries'[p].completed = ~AllCompleted(entries)
            /\ (entries # <<>> /\ ~AllCompleted(entries)) =>
                    \E again \in {Again'} :
                        /\ AllCompleted(entries')
                        /\ NoneCompleted(again.entries)
                        /\ Len(again.entries) = Len(entries)]_vars

\* toggleAll has acted under filter All on three completed entries: none is
\* completed now.
C6_Witness ==
    /\ msg = MsgUnit("ToggleAll")
    /\ ~panicked
    /\ filter = "All"
    /\ Len(entries) = 3
    /\ NoneCompleted(entries)

\* C7: clearCompleted, whatever the filter, leaves exactly the entries that
\* were not completed, in their order and with their fields, and leaves the
\* filter as it was.
C7_ClearCompleted ==
    [][Handles("ClearCompleted") =>
            /\ ~panicked'
            /\ entries' = SelectSeq(entries, LAMBDA e : ~e.completed)
            /\ NoneCompleted(entries')
            /\ filter' = filter]_vars

\* clearCompleted has acted under filter Completed and two entries survive,
\* the first still in edit mode.
C7_Witness ==
    /\ msg = MsgUnit("ClearCompleted")
    /\ ~panicked
    /\ filter = "Completed"
    /\ Len(entries) = 2
    /\ entries[1].editing /\ ~entries[2].editing

\* The whole state a handler can change.
Full(s) == <<s.entries, s.filter, s.value, s.edit_value, s.storage, s.panicked>>

\* C8: after clearCompleted, a second clearCompleted leaves the whole state
\* (entries, filter, buffers, stored copy) as the first one left it.
C8_ClearCompletedIdempotent ==
    (msg.kind = "ClearCompleted" /\ ~panicked) => Full(Again) = Full(Cur)

\* clearCompleted has acted and left two entries, stored as they are.
C8_Witness ==
    /\ msg = MsgUnit("ClearCompleted")
    /\ ~panicked
    /\ Len(entries) = 2
    /\ storage = Stored(entries)
    /\ value = "a"

\* C9: is_all_completed() is false when no entry is shown under the filter,
\* and otherwise true exactly when every shown entry is completed.
C9_IsAllCompleted ==
    is_all_completed(entries, filter) =
        /\ Rows(entries, filter) # {}
        /\ \A p \in Rows(entries, filter) : entries[p].completed

\* Entries exist, none is shown under filter Completed, and the answer is false.
C9_Witness ==
    /\ filter = "Completed"
    /\ Len(entries) = 2
    /\ NoneCompleted(entries)
    /\ ~is_all_completed(entries, filter)

\* C10: addEntry appends one entry whose description is the value buffer as it
\* is (empty included), not completed and not editing, keeps every existing
\* entry in place, empties value, and leaves filter and edit_value alone.
C10_AddEntry ==
    [][Handles("Add") =>
            /\ ~panicked'
            /\ Len(entries') = Len(entries) + 1
            /\ \A p \in 1 .. Len(entries) : entries'[p] = entries[p]
            /\ entries'[Len(entries) + 1] =
                    [description |-> value, completed |-> FALSE, editing |-> FALSE]
            /\ value' = ""
            /\ <<filter', edit_value'>> = <<filter, edit_value>>]_vars

\* addEntry has appended an entry with the empty description after a
\* completed one.
C10_Witness ==
    /\ msg = MsgUnit("Add")
    /\ ~panicked
    /\ Len(entries) = 2
    /\ entries[1].completed
    /\ entries[2] = [description |-> "", completed |-> FALSE, editing |-> FALSE]

\* C11: commitEdit on a visible row whose entry is in edit mode sets that
\* entry's description to edit_value as it was, leaves the entry out of edit
\* mode with its completed flag as it was, and leaves edit_value empty.
C11_CommitEdit ==
    [][(HandlesRow("Edit") /\ entries[Target].editing) =>
            /\ ~panicked'
            /\ entries'[Target] =
                    [description |-> edit_value,
                     completed |-> entries[Target].completed,
                     editing |-> FALSE]
            /\ edit_value' = ""]_vars

\* commitEdit has acted on the second row of the Active view, the third entry:
\* it holds the committed text, is out of edit mode, and the buffer is empty.
C11_Witness ==
    /\ msg = MsgIdx("Edit", 1)
    /\ ~panicked
    /\ filter = "Active"
    /\ Len(entries) = 3
    /\ entries[2].completed
    /\ entries[3] = [description |-> "a", completed |-> FALSE, editing |-> FALSE]
    /\ edit_value = ""

\* C12: beginEdit(i) on a visible row followed by beginEdit(i) succeeds,
\* leaves the entry's editing flag as it was before the two calls, and
\* leaves every entry's description and completed flag as they were.
C12_BeginEditTwice ==
    [][HandlesRow("ToggleEdit") =>
            \E again \in {Again'} :
                /\ ~again.panicked
                /\ Len(again.entries) = Len(entries)
                /\ again.entries[Target].editing = entries[Target].editing
                /\ \A p \in 1 .. Len(entries) :
                        /\ again.entries[p].description = entries[p].description
                        /\ again.entries[p].completed = entries[p].completed]_vars

\* beginEdit has put the only completed entry, the second of the Vec, into
\* edit mode under filter Completed.
C12_Witness ==
    /\ msg = MsgIdx("ToggleEdit", 0)
    /\ ~panicked
    /\ filter = "Completed"
    /\ Len(entries) = 2
    /\ ~entries[1].completed /\ ~entries[1].editing
    /\ entries[2].completed /\ entries[2].editing

\* The kinds of message that carry a row index.
RowKinds == {"Toggle", "ToggleEdit", "Edit", "Remove"}

\* C13: toggleEntry, beginEdit, commitEdit and removeEntry with an index that
\* is not a visible row (even one below the length of the Vec) end in a
\* panic, and no entry is changed or removed.
C13_FailFast ==
    [][(msg = NoMsg /\ msg'.kind \in RowKinds
            /\ msg'.idx >= Cardinality(Rows(entries, filter))) =>
            /\ panicked'
            /\ entries' = entries]_vars

\* removeEntry(1) under filter Active with three entries of which only one is
\* active: the handler has panicked and the three entries are still there.
C13_Witness ==
    /\ msg = MsgIdx("Remove", 1)
    /\ panicked
    /\ filter = "Active"
    /\ Len(entries) = 3
    /\ Cardinality(Rows(entries, filter)) = 1

\* C14: after every message the handler finishes (Nope, SetFilter, Update
\* and UpdateEdit included) the stored copy is the current entries; and Nope
\* changes no field of the state.
C14_SavedAfterEveryMessage ==
    [][(msg = NoMsg /\ msg' # NoMsg /\ ~panicked') =>
            /\ storage' = Stored(entries')
            /\ msg'.kind = "Nope" =>
                    <<entries', filter', value', edit_value'>> =
                        <<entries, filter, value, edit_value>>]_vars

\* Nope has been handled in the state App::create leaves for an empty list:
\* the empty Vec is stored and no field has changed.
C14_Witness ==
    /\ msg = MsgUnit("Nope")
    /\ ~panicked
    /\ entries = <<>>
    /\ storage = Stored(<<>>)
    /\ filter = "All" /\ value = "" /\ edit_value = ""

\* C15: setFilter(f) changes the filter to f and nothing else of the state,
\* updateValue(text) changes value to text and nothing else, and
\* updateEditValue(text) changes edit_value to text and nothing else.
C15_SingleFieldUpdates ==
    [][/\ Handles("SetFilter") =>
            <<entries', filter', value', edit_value'>> =
                <<entries, msg'.flt, value, edit_value>>
       /\ Handles("Update") =>
            <<entries', filter', value', edit_value'>> =
                <<entries, filter, msg'.text, edit_value>>
       /\ Handles("UpdateEdit") =>
            <<entries', filter', value', edit_value'>> =
                <<entries, filter, value, msg'.text>>]_vars

\* updateEditValue("a") has acted while value is empty, under filter Active
\* with two entries.
C15_Witness ==
    /\ msg = MsgText("UpdateEdit", "a")
    /\ ~panicked
    /\ filter = "Active"
    /\ Len(entries) = 2
    /\ value = ""
    /\ edit_value = "a"

NumCompleted(es) == Cardinality({p \in 1 .. Len(es) : es[p].completed})

\* C16: after every step total() is the length of the Vec and
\* total_completed() the number of completed entries, whatever the filter;
\* and the length changes only by addEntry (+1), removeEntry (-1) and
\* clearCompleted (minus the number of completed entries).
C16_Counts ==
    [][/\ total(entries') = Len(entries')
       /\ total_completed(entries') = NumCompleted(entries')
       /\ Len(entries') # Len(entries) =>
            \/ Handles("Add") /\ Len(entries') = Len(entries) + 1
            \/ Handles("Remove") /\ Len(entries') = Len(entries) - 1
            \/ Handles("ClearCompleted")
                    /\ Len(entries') = Len(entries) - NumCompleted(entries)]_vars

\* clearCompleted has acted under filter Active and left one of the entries;
\* no completed entry is counted.
C16_Witness ==
    /\ msg = MsgUnit("ClearCompleted")
    /\ ~panicked
    /\ filter = "Active"
    /\ total(entries) = 1
    /\ total_completed(entries) = 0
    /\ edit_value = "a"

\* What load() returns for the stored text: the stored entries, or the empty
\* sequence when nothing is stored or the text is malformed.
Loaded(st) == IF st \in {Absent, Malformed} THEN <<>> ELSE st.data

StartsAsLoaded ==
    /\ filter = "All"
    /\ value = ""
    /\ edit_value = ""
    /\ entries = Loaded(storage)
    /\ ~panicked

\* C17: the initial state has filter All, both buffers empty and the entries
\* that load() returns, the empty sequence when nothing is stored or the
\* stored text is malformed; it is not an error state.
C17_InitialState == StartsAsLoaded /\ [][TRUE]_vars

\* The component has started on malformed stored text, with no entry and
\* without a panic.
C17_Witness ==
    /\ storage = Malformed
    /\ msg = NoMsg
    /\ entries = <<>>
    /\ filter = "All"
    /\ ~panicked

\* C18: under filter Active or Completed, toggleAll leaves no entry shown:
\* under Active every entry that was shown is completed, under Completed
\* every entry that was shown is not completed, and when none was shown the
\* entries do not change.
C18_ToggleAllEmptiesView ==
    [][(Handles("ToggleAll") /\ filter \in {"Active", "Completed"}) =>
            /\ ~panicked'
            /\ filter' = filter
            /\ Len(entries') = Len(entries)
            /\ Rows(entries', filter') = {}
            /\ \A p \in Rows(entries, filter) :
                    entries'[p].completed = (filter = "Active")
            /\ Rows(entries, filter) = {} => entries' = entries]_vars

\* toggleAll has acted under filter Completed on three entries, the second in
\* edit mode: none is completed, so none is shown.
C18_Witness ==
    /\ msg = MsgUnit("ToggleAll")
    /\ ~panicked
    /\ filter = "Completed"
    /\ Len(entries) = 3
    /\ NoneCompleted(entries)
    /\ entries[2].editing
    /\ Rows(entries, filter) = {}

\* C19: commitEdit(i) on a visible row followed by commitEdit(i) succeeds,
\* acts on the same entry under every filter, and leaves it with the empty
\* description and with the editing flag it had before the two calls; the
\* other entries are as they were.
C19_CommitEditTwice ==
    [][HandlesRow("Edit") =>
            \E again \in {Again'} :
                /\ ~again.panicked
                /\ Len(again.entries) = Len(entries)
                /\ again.entries[Target] =
                        [description |-> "",
                         completed |-> entries[Target].completed,
                         editing |-> entries[Target].editing]
                /\ \A p \in 1 .. Len(entries) :
                        p # Target => again.entries[p] = entries[p]]_vars

\* commitEdit has committed the text "a" into the only completed entry, the
\* second of the Vec, under filter Completed; a second commitEdit would
\* empty it.
C19_Witness ==
    /\ msg = MsgIdx("Edit", 0)
    /\ ~panicked
    /\ filter = "Completed"
    /\ Len(entries) = 2
    /\ ~entries[1].completed
    /\ entries[2] = [description |-> "a", completed |-> TRUE, editing |-> FALSE]
    /\ edit_value = ""

\* C20: under filter All, with entries i and j (i # j) both out of edit mode,
\* beginEdit(i) then beginEdit(j) leaves both in edit mode with edit_value
\* the description of entry j, and commitEdit(i) then gives entry i the
\* description of entry j.
C20_SharedEditBuffer ==
    [][(HandlesRow("ToggleEdit") /\ filter = "All"
            /\ ~entries[msg'.idx + 1].editing) =>
            \A j \in Indices :
                (j # msg'.idx /\ j < Len(entries) /\ ~entries[j + 1].editing) =>
                    LET i == msg'.idx
                        s2 == update(Cur', MsgIdx("ToggleEdit", j))
                        s3 == update(s2, MsgIdx("Edit", i))
                    IN  /\ ~panicked' /\ ~s2.panicked /\ ~s3.panicked
                        /\ s2.entries[i + 1].editing
                        /\ s2.entries[j + 1].editing
                        /\ s2.edit_value = entries[j + 1].description
                        /\ s3.entries[i + 1].description =
                                entries[j + 1].description]_vars

\* beginEdit(0) has acted under filter All on an entry with the empty
\* description, and the second entry, "a", is out of edit mode.
C20_Witness ==
    /\ msg = MsgIdx("ToggleEdit", 0)
    /\ ~panicked
    /\ filter = "All"
    /\ Len(entries) = 2
    /\ entries[1] = [description |-> "", completed |-> FALSE, editing |-> TRUE]
    /\ entries[2].description = "a" /\ ~entries[2].editing
    /\ edit_value = ""

====
